---- MODULE Spec2Model ----
(***************************************************************************)
(* Model of the music-theory-to-event compiler of midi_composer.py:        *)
(* note-name resolution, scale expansion, chord construction, the four     *)
(* track builders and the declarative loader create_from_json.             *)
(*                                                                         *)
(* Time is counted in ticks of one tenth of a beat (the drum note length   *)
(* 0.1 is one tick), so every float of the inputs used here is an integer. *)
(* Text is a sequence of one-character strings, so that replace, strip     *)
(* and upper act on characters as str's methods do.                        *)
(***************************************************************************)
EXTENDS Integers, Sequences, FiniteSets, TLC

VARIABLES
    pc,                 \* position of the running call
    note_name, octave,  \* arguments of note_name_to_midi
    root, scale_type,   \* arguments shared by the chord engine and builders
    quality, inversion, octave_doubling,   \* arguments of create_chord
    builder,            \* which track builder is running
    progression, duration_per_chord,       \* create_chord_progression
    pattern,            \* create_melody / create_bass_line / create_drum_pattern
    measures, time_signature,              \* create_drum_pattern, composer
    scale_notes,        \* local: the expanded (and for bass shifted) scale
    idx,                \* local: number of pattern elements consumed
    current_time,       \* local: the running cursor
    notes,              \* local: the notes emitted so far
    data,               \* create_from_json: the parsed specification
    tracks,             \* composer.tracks
    exported,           \* files handed to export_to_midi
    num_octaves,        \* the octaves argument of get_scale_notes
    note_pitch,         \* the pitch argument of Note(...)
    note_velocity,      \* the velocity argument of Note(...)
    tempo,              \* composer.tempo
    chord_qualities,    \* the value lists of the ChordQuality members
    calls,              \* the calls made on one composer, with their results
    result,             \* value returned by the call
    raised              \* exception that left the call, "" when none

vars == <<pc, note_name, octave, root, scale_type, quality, inversion,
          octave_doubling, builder, progression, duration_per_chord, pattern,
          measures, time_signature, scale_notes, idx, current_time, notes,
          data, tracks, exported, num_octaves, note_pitch, note_velocity, tempo,
          chord_qualities, calls, result, raised>>

\* Placeholder of a variable the running operation does not use.
NoValue == "-"

-----------------------------------------------------------------------------
(* Bounds of the model *)

MaxTokenLen == 3
MaxInversion == 5
MaxLen == 2
MaxMeasures == 2
MaxTracks == 2

MaxOctaves == 3

MaxExcess == 3

MaxCalls == 3

RECURSIVE BoundedSeq(_, _)
BoundedSeq(S, n) ==
    IF n = 0 THEN {<<>>}
    ELSE LET shorter == BoundedSeq(S, n - 1)
         IN  shorter \cup {Append(s, e) : s \in {t \in shorter : Len(t) = n - 1}, e \in S}

Min(a, b) == IF a < b THEN a ELSE b
Max(a, b) == IF a > b THEN a ELSE b

-----------------------------------------------------------------------------
(* Lookup tables *)

ScaleType ==
    [MAJOR            |-> <<0, 2, 4, 5, 7, 9, 11>>,
     MINOR            |-> <<0, 2, 3, 5, 7, 8, 10>>,
     HARMONIC_MINOR   |-> <<0, 2, 3, 5, 7, 8, 11>>,
     MELODIC_MINOR    |-> <<0, 2, 3, 5, 7, 9, 11>>,
     PENTATONIC_MAJOR |-> <<0, 2, 4, 7, 9>>,
     PENTATONIC_MINOR |-> <<0, 3, 5, 7, 10>>,
     BLUES            |-> <<0, 3, 5, 6, 7, 10>>,
     DORIAN           |-> <<0, 2, 3, 5, 7, 9, 10>>,
     PHRYGIAN         |-> <<0, 1, 3, 5, 7, 8, 10>>,
     LYDIAN           |-> <<0, 2, 4, 6, 7, 9, 11>>,
     MIXOLYDIAN       |-> <<0, 2, 4, 5, 7, 9, 10>>,
     LOCRIAN          |-> <<0, 1, 3, 5, 6, 8, 10>>,
     WHOLE_TONE       |-> <<0, 2, 4, 6, 8, 10>>,
     CHROMATIC        |-> <<0, 1, 2, 3, 4, 5, 6, 7, 8, 9, 10, 11>>]

ChordQuality ==
    [MAJOR            |-> <<0, 4, 7>>,
     MINOR            |-> <<0, 3, 7>>,
     DIMINISHED       |-> <<0, 3, 6>>,
     AUGMENTED        |-> <<0, 4, 8>>,
     MAJOR7           |-> <<0, 4, 7, 11>>,
     MINOR7           |-> <<0, 3, 7, 10>>,
     DOMINANT7        |-> <<0, 4, 7, 10>>,
     DIMINISHED7      |-> <<0, 3, 6, 9>>,
     HALF_DIMINISHED7 |-> <<0, 3, 6, 10>>,
     MINOR_MAJOR7     |-> <<0, 3, 7, 11>>,
     AUGMENTED7       |-> <<0, 4, 8, 10>>,
     SUS2             |-> <<0, 2, 7>>,
     SUS4             |-> <<0, 5, 7>>,
     ADD9             |-> <<0, 4, 7, 14>>,
     MAJOR6           |-> <<0, 4, 7, 9>>,
     MINOR6           |-> <<0, 3, 7, 9>>]

NOTE_NAMES ==
    << <<"C">>, <<"C", "#">>, <<"D">>, <<"D", "#">>, <<"E">>, <<"F">>,
       <<"F", "#">>, <<"G">>, <<"G", "#">>, <<"A">>, <<"A", "#">>, <<"B">> >>

\* flat_map of note_name_to_midi, as the set of its (key, value) pairs
flat_map ==
    { << <<"D", "B">>, <<"C", "#">> >>, << <<"E", "B">>, <<"D", "#">> >>,
      << <<"G", "B">>, <<"F", "#">> >>, << <<"A", "B">>, <<"G", "#">> >>,
      << <<"B", "B">>, <<"A", "#">> >> }

-----------------------------------------------------------------------------
(* str methods used by note_name_to_midi *)

LowerCase == <<"a", "b", "c", "d", "e", "f", "g", "h", "i", "j", "k", "l", "m",
               "n", "o", "p", "q", "r", "s", "t", "u", "v", "w", "x", "y", "z">>
UpperCase == <<"A", "B", "C", "D", "E", "F", "G", "H", "I", "J", "K", "L", "M",
               "N", "O", "P", "Q", "R", "S", "T", "U", "V", "W", "X", "Y", "Z">>
Whitespace == {" "}

\* note_name.replace(old, '') for a one-character old
StrRemove(s, old) == SelectSeq(s, LAMBDA c : c # old)

RECURSIVE LStrip(_)
LStrip(s) ==
    IF s # <<>> /\ Head(s) \in Whitespace THEN LStrip(Tail(s)) ELSE s

RECURSIVE RStrip(_)
RStrip(s) ==
    IF s # <<>> /\ s[Len(s)] \in Whitespace
    THEN RStrip(SubSeq(s, 1, Len(s) - 1)) ELSE s

StrStrip(s) == RStrip(LStrip(s))

UpperChar(c) ==
    IF \E k \in 1..Len(LowerCase) : LowerCase[k] = c
    THEN UpperCase[CHOOSE k \in 1..Len(LowerCase) : LowerCase[k] = c]
    ELSE c

StrUpper(s) == [k \in 1..Len(s) |-> UpperChar(s[k])]

\* list.index(x) as a 0-based position; the caller has checked membership
ListIndex(list, x) == (CHOOSE k \in 1..Len(list) : list[k] = x) - 1

InList(list, x) == \E k \in 1..Len(list) : list[k] = x

-----------------------------------------------------------------------------
(* Pitch and scale engine *)

\* max(0, min(127, n))
Clamp(n) == Max(0, Min(127, n))

InMidiRange(n) == 0 <= n /\ n <= 127

\* Outcome of a call: the value returned, or the exception that left it
\* (its type and its args tuple).
NoError == [type |-> "", args |-> <<>>]
Returned(v) == [raised |-> NoError, value |-> v]
Raise(e, args) == [raised |-> [type |-> e, args |-> args], value |-> NoValue]
Failed(call) == call.raised.type # ""

\* Variant: the flat aliases are not resolved
ResolvedNoteNameNoFlats(name) == StrUpper(StrStrip(StrRemove(name, "m")))

\* The name note_name_to_midi looks up, after replace/strip/upper and flat_map
ResolvedNoteName(name) ==
    LET cleaned == StrUpper(StrStrip(StrRemove(name, "m")))
    IN  IF \E p \in flat_map : p[1] = cleaned
        THEN (CHOOSE p \in flat_map : p[1] = cleaned)[2]
        ELSE cleaned

\* Variant: the octave is counted from 0 instead of from -1
NoteNameToMidiOctaveFromZero(name, oct) ==
    LET resolved == ResolvedNoteName(name)
    IN  IF ~InList(NOTE_NAMES, resolved)
        THEN Raise("ValueError", <<"Invalid note name", resolved>>)
        ELSE Returned(Clamp(oct * 12 + ListIndex(NOTE_NAMES, resolved)))

note_name_to_midi(name, oct) ==
    LET resolved == ResolvedNoteName(name)
    IN  IF ~InList(NOTE_NAMES, resolved)
        THEN Raise("ValueError", <<"Invalid note name", resolved>>)
        ELSE Returned(Clamp((oct + 1) * 12 + ListIndex(NOTE_NAMES, resolved)))

\* Variant: get_scale_notes keeps a note only below 127
GetScaleNotesBelowTop(r, scale, octaves) ==
    LET intervals == ScaleType[scale]
        n == Len(intervals)
        all == [k \in 1..(octaves * n) |->
                   r + (((k - 1) \div n) * 12) + intervals[((k - 1) % n) + 1]]
    IN  SelectSeq(all, LAMBDA note : 0 <= note /\ note < 127)

get_scale_notes(r, scale, octaves) ==
    LET intervals == ScaleType[scale]
        n == Len(intervals)
        all == [k \in 1..(octaves * n) |->
                   r + (((k - 1) \div n) * 12) + intervals[((k - 1) % n) + 1]]
    IN  SelectSeq(all, InMidiRange)

-----------------------------------------------------------------------------
(* Chord engine *)

\* Variant: the inversion loop without intervals.sort()
InvertOnceUnsorted(intervals) == [intervals EXCEPT ![1] = @ + 12]

\* One pass of the inversion loop: intervals[0] += 12; intervals.sort()
InvertOnce(intervals) ==
    SortSeq([intervals EXCEPT ![1] = @ + 12], LAMBDA a, b : a < b)

RECURSIVE Invert(_, _)
Invert(intervals, k) ==
    IF k <= 0 THEN intervals ELSE Invert(InvertOnce(intervals), k - 1)

\* Variant: the inversion loop works on quality.value itself, not on a copy
ChordIntervalsInPlace(values, q, inv) ==
    [intervals |-> Invert(values[q], inv),
     values |-> [values EXCEPT ![q] = Invert(values[q], inv)]]

\* intervals = quality.value.copy() and the inversion loop on the copy: the
\* intervals of the chord, and the value lists of the qualities afterwards
ChordIntervals(values, q, inv) ==
    [intervals |-> Invert(values[q], inv), values |-> values]

\* The pitches built from the intervals: doubling, then the range filter
ChordFromIntervals(r, intervals, doubling) ==
    LET chord == [k \in 1..Len(intervals) |-> r + intervals[k]]
        doubled == IF doubling /\ Len(chord) > 0
                   THEN Append(chord, chord[1] + 12) ELSE chord
    IN  SelectSeq(doubled, InMidiRange)

create_chord(r, q, inv, doubling) ==
    ChordFromIntervals(r, ChordIntervals(ChordQuality, q, inv).intervals, doubling)

-----------------------------------------------------------------------------
(* Data model *)

\* One tick is 0.1 beat; the drum builder's duration=0.1 is DrumDuration.
TicksPerBeat == 10
DrumDuration == 1

INSTRUMENTS ==
    [acoustic_grand_piano |-> 0, bright_acoustic_piano |-> 1,
     electric_grand_piano |-> 2, electric_piano |-> 4, rhodes |-> 4,
     wurlitzer |-> 5, vibraphone |-> 11, marimba |-> 12, xylophone |-> 13,
     drawbar_organ |-> 16, hammond |-> 16, rock_organ |-> 18,
     acoustic_guitar_nylon |-> 24, acoustic_guitar_steel |-> 25,
     electric_guitar_jazz |-> 26, electric_guitar_clean |-> 27,
     electric_guitar_muted |-> 28, acoustic_bass |-> 32,
     electric_bass_finger |-> 33, electric_bass_pick |-> 34,
     fretless_bass |-> 35, slap_bass |-> 36, synth_bass_1 |-> 38,
     synth_bass_2 |-> 39, violin |-> 40, viola |-> 41, cello |-> 42,
     contrabass |-> 43, string_ensemble |-> 48, choir_aahs |-> 52,
     voice_oohs |-> 53, trumpet |-> 56, trombone |-> 57, tuba |-> 58,
     french_horn |-> 60, brass_section |-> 61, soprano_sax |-> 64,
     alto_sax |-> 65, tenor_sax |-> 66, baritone_sax |-> 67,
     clarinet |-> 71, synth_lead_square |-> 80, synth_lead_sawtooth |-> 81,
     synth_lead_calliope |-> 82, synth_pad_new_age |-> 88,
     synth_pad_warm |-> 89, synth_pad_polysynth |-> 90,
     synth_pad_choir |-> 91, synth_pad_bowed |-> 92,
     synth_pad_metallic |-> 93]

DRUM_MAP ==
    [kick |-> 36, snare |-> 38, closed_hihat |-> 42, open_hihat |-> 46,
     crash |-> 49, ride |-> 51, tom_high |-> 48, tom_mid |-> 47, tom_low |-> 45]

\* Variant: a Note without __post_init__
NoteUnclamped(p, start, dur, vel) ==
    [pitch |-> p, start_time |-> start, duration |-> dur, velocity |-> vel]

\* Variant: Note saturates only at the top of the range
NoteClampedAbove(p, start, dur, vel) ==
    [pitch |-> Min(127, p), start_time |-> start, duration |-> dur,
     velocity |-> Min(127, vel)]

\* Note(...) with __post_init__: pitch and velocity are saturated
Note(p, start, dur, vel) ==
    [pitch |-> Clamp(p), start_time |-> start, duration |-> dur,
     velocity |-> Clamp(vel)]

Track(nm, ch, ns, prog) ==
    [name |-> nm, channel |-> ch, notes |-> ns, program |-> prog]

\* list[k] for a 0-based k, negative k counting from the end
PyIndex(list, k) ==
    IF 0 <= k /\ k < Len(list) THEN Returned(list[k + 1])
    ELSE IF k < 0 /\ k + Len(list) >= 0 THEN Returned(list[k + Len(list) + 1])
    ELSE Raise("IndexError", <<"list index out of range">>)

\* Locals of a running builder
BuilderState(ns, t, e) == [notes |-> ns, current_time |-> t, raised |-> e]

-----------------------------------------------------------------------------
(* Track builders: one operator per loop body, one per whole call *)

\* scale_notes[degree - 1] if degree <= len(scale_notes) else root
ChordRoot(sn, degree, r) ==
    IF degree <= Len(sn) THEN PyIndex(sn, degree - 1) ELSE Returned(r)

\* Variant: the rule of the major scale is applied to every scale
DegreeQualityMajorRuleOnly(scale, degree) ==
    IF degree \in {1, 4, 5} THEN "MAJOR"
    ELSE IF degree \in {2, 3, 6} THEN "MINOR"
    ELSE IF degree = 7 THEN "DIMINISHED"
    ELSE "MAJOR"

\* The quality chosen for a degree
DegreeQuality(scale, degree) ==
    IF scale = "MAJOR"
    THEN IF degree \in {1, 4, 5} THEN "MAJOR"
         ELSE IF degree \in {2, 3, 6} THEN "MINOR"
         ELSE IF degree = 7 THEN "DIMINISHED"
         ELSE "MAJOR"
    ELSE IF degree \in {3, 6, 7} THEN "MAJOR"
         ELSE IF degree \in {1, 4, 5} THEN "MINOR"
         ELSE IF degree = 2 THEN "DIMINISHED"
         ELSE "MINOR"

\* Variant: the cursor of create_chord_progression is not advanced
ChordProgressionElemNoAdvance(st, degree, sn, r, scale, d) ==
    LET chord_root == ChordRoot(sn, degree, r)
        chord == create_chord(chord_root.value, DegreeQuality(scale, degree), 0, FALSE)
    IN  IF Failed(chord_root)
        THEN BuilderState(st.notes, st.current_time, chord_root.raised)
        ELSE BuilderState(st.notes \o [k \in 1..Len(chord) |->
                                          Note(chord[k], st.current_time, d, 70)],
                          st.current_time, NoError)

\* Variant: the cursor of create_chord_progression advances once per pitch
ChordProgressionElemAdvancePerNote(st, degree, sn, r, scale, d) ==
    LET chord_root == ChordRoot(sn, degree, r)
    IN  IF Failed(chord_root)
        THEN BuilderState(st.notes, st.current_time, chord_root.raised)
        ELSE LET chord == create_chord(chord_root.value,
                                       DegreeQuality(scale, degree), 0, FALSE)
                 emitted == [k \in 1..Len(chord) |->
                                Note(chord[k], st.current_time + (k - 1) * d, d, 70)]
             IN  BuilderState(st.notes \o emitted,
                              st.current_time + Len(chord) * d, NoError)

\* Body of the loop of create_chord_progression
ChordProgressionElem(st, degree, sn, r, scale, d) ==
    LET chord_root == ChordRoot(sn, degree, r)
    IN  IF Failed(chord_root)
        THEN BuilderState(st.notes, st.current_time, chord_root.raised)
        ELSE LET chord == create_chord(chord_root.value,
                                       DegreeQuality(scale, degree), 0, FALSE)
                 emitted == [k \in 1..Len(chord) |->
                                Note(chord[k], st.current_time, d, 70)]
             IN  BuilderState(st.notes \o emitted, st.current_time + d, NoError)

\* The pitch create_melody computes for a positive degree
MelodyPitch(sn, degree) ==
    IF Len(sn) = 0
    THEN Raise("ZeroDivisionError", <<"integer division or modulo by zero">>)
    ELSE Returned(sn[((degree - 1) % Len(sn)) + 1]
                  + (((degree - 1) \div Len(sn)) * 12))

\* Variant: the cursor of create_melody advances only when a note is emitted
MelodyElemRestSkipsAdvance(st, e, sn) ==
    IF e[1] > 0
    THEN BuilderState(Append(st.notes,
                          Note(MelodyPitch(sn, e[1]).value, st.current_time, e[2], 85)),
                      st.current_time + e[2] + e[3], NoError)
    ELSE st

\* Body of the loop of create_melody; e = <<degree, duration, rest>>
MelodyElem(st, e, sn) ==
    LET degree == e[1]
        duration == e[2]
        rest == e[3]
        pitch == MelodyPitch(sn, degree)
    IN  IF degree > 0 /\ Failed(pitch)
        THEN BuilderState(st.notes, st.current_time, pitch.raised)
        ELSE BuilderState(
                 IF degree > 0
                 THEN Append(st.notes, Note(pitch.value, st.current_time, duration, 85))
                 ELSE st.notes,
                 st.current_time + duration + rest, NoError)

\* bass_notes = [note - 24 for note in scale_notes if note - 24 >= 0]
BassNotes(r, scale) ==
    LET sn == get_scale_notes(r, scale, 2)
        kept == SelectSeq(sn, LAMBDA n : n - 24 >= 0)
    IN  [k \in 1..Len(kept) |-> kept[k] - 24]

\* Variant: create_bass_line wraps a degree beyond the list around, as
\* create_melody does
BassElemWraps(st, e, bn) ==
    LET degree == e[1]
        duration == e[2]
    IN  BuilderState(
            IF degree > 0 /\ Len(bn) > 0
            THEN Append(st.notes, Note(bn[((degree - 1) % Len(bn)) + 1],
                                       st.current_time, duration, 90))
            ELSE st.notes,
            st.current_time + duration, NoError)

\* Body of the loop of create_bass_line; e = <<degree, duration>>
BassElem(st, e, bn) ==
    LET degree == e[1]
        duration == e[2]
    IN  BuilderState(
            IF degree > 0 /\ degree <= Len(bn)
            THEN Append(st.notes, Note(bn[degree], st.current_time, duration, 90))
            ELSE st.notes,
            st.current_time + duration, NoError)

\* The notes of one drum entry <<drum, hits>> in the measure starting at offset
DrumHits(entry, offset) ==
    LET drum == entry[1]
        hits == entry[2]
    IN  IF drum \in DOMAIN DRUM_MAP
        THEN [k \in 1..Len(hits) |->
                 Note(DRUM_MAP[drum], offset + hits[k], DrumDuration, 95)]
        ELSE <<>>

RECURSIVE DrumItems(_, _)
DrumItems(pat, offset) ==
    IF pat = <<>> THEN <<>>
    ELSE DrumHits(Head(pat), offset) \o DrumItems(Tail(pat), offset)

\* Variant: a measure of create_drum_pattern is taken to be one beat long
DrumMeasureOneBeat(st, measure, pat, ts) ==
    LET offset == measure * TicksPerBeat
    IN  BuilderState(st.notes \o DrumItems(pat, offset), st.current_time, NoError)

\* Body of the measure loop of create_drum_pattern (measure is 0-based;
\* pat lists the items of the dict in insertion order)
DrumMeasure(st, measure, pat, ts) ==
    LET beats_per_measure == ts[1]
        offset == measure * beats_per_measure * TicksPerBeat
    IN  BuilderState(st.notes \o DrumItems(pat, offset), st.current_time, NoError)

RECURSIVE ChordProgressionLoop(_, _, _, _, _, _)
ChordProgressionLoop(st, prog, sn, r, scale, d) ==
    IF prog = <<>> \/ st.raised.type # "" THEN st
    ELSE ChordProgressionLoop(ChordProgressionElem(st, Head(prog), sn, r, scale, d),
                              Tail(prog), sn, r, scale, d)

RECURSIVE MelodyLoop(_, _, _)
MelodyLoop(st, pat, sn) ==
    IF pat = <<>> \/ st.raised.type # "" THEN st
    ELSE MelodyLoop(MelodyElem(st, Head(pat), sn), Tail(pat), sn)

RECURSIVE BassLoop(_, _, _)
BassLoop(st, pat, bn) ==
    IF pat = <<>> THEN st
    ELSE BassLoop(BassElem(st, Head(pat), bn), Tail(pat), bn)

RECURSIVE DrumLoop(_, _, _, _, _)
DrumLoop(st, measure, count, pat, ts) ==
    IF measure >= count THEN st
    ELSE DrumLoop(DrumMeasure(st, measure, pat, ts), measure + 1, count, pat, ts)

\* The Track each builder returns for the notes it collected
BuilderTrack(b, ns) ==
    CASE b = "chord_progression" ->
             Track("Chord Progression", 0, ns, INSTRUMENTS.electric_piano)
      [] b = "melody" -> Track("Melody", 1, ns, INSTRUMENTS.synth_lead_sawtooth)
      [] b = "bass" -> Track("Bass", 2, ns, INSTRUMENTS.electric_bass_finger)
      [] b = "drums" -> Track("Drums", 9, ns, 0)

Finish(b, st) ==
    IF st.raised.type # "" THEN Raise(st.raised.type, st.raised.args)
    ELSE Returned(BuilderTrack(b, st.notes))

create_chord_progression(r, scale, prog, d) ==
    Finish("chord_progression",
           ChordProgressionLoop(BuilderState(<<>>, 0, NoError), prog,
                                get_scale_notes(r, scale, 3), r, scale, d))

create_melody(r, scale, pat) ==
    Finish("melody",
           MelodyLoop(BuilderState(<<>>, 0, NoError), pat, get_scale_notes(r, scale, 3)))

create_bass_line(r, scale, pat) ==
    Finish("bass", BassLoop(BuilderState(<<>>, 0, NoError), pat, BassNotes(r, scale)))

create_drum_pattern(pat, count, ts) ==
    Finish("drums", DrumLoop(BuilderState(<<>>, 0, NoError), 0, count, pat, ts))

-----------------------------------------------------------------------------
(* Declarative loader *)

\* dict.get(key, default)
Get(d, key, default) == IF key \in DOMAIN d THEN d[key] ELSE default

\* track.program = INSTRUMENTS.get(track_spec['instrument'], default), when
\* the descriptor has an instrument
WithInstrument(track, track_spec, default) ==
    IF "instrument" \in DOMAIN track_spec
    THEN [track EXCEPT !.program = Get(INSTRUMENTS, track_spec.instrument, default)]
    ELSE track

\* Variant: a descriptor without its required field is skipped
RequireOrSkip(track_spec, field, call) ==
    IF field \in DOMAIN track_spec THEN call ELSE Returned(<<>>)

\* A required field of a descriptor: track_spec[field]
Require(track_spec, field, call) ==
    IF field \in DOMAIN track_spec THEN call ELSE Raise("KeyError", <<field>>)

\* The tracks a builder call adds: its track with the instrument applied
Added(call, track_spec, default) ==
    IF Failed(call) THEN call
    ELSE Returned(<<WithInstrument(call.value, track_spec, default)>>)

\* Body of the loop of create_from_json: the tracks the descriptor appends
TrackFromSpec(track_spec, r, scale, ts) ==
    LET track_type == Get(track_spec, "type", "None")
    IN  CASE track_type = "chord_progression" ->
                 Require(track_spec, "progression",
                     Added(create_chord_progression(r, scale, track_spec.progression,
                               Get(track_spec, "duration_per_chord", 4 * TicksPerBeat)),
                           track_spec, INSTRUMENTS.electric_piano))
          [] track_type = "melody" ->
                 Require(track_spec, "pattern",
                     Added(create_melody(r, scale, track_spec.pattern),
                           track_spec, INSTRUMENTS.synth_lead_sawtooth))
          [] track_type = "bass" ->
                 Require(track_spec, "pattern",
                     Added(create_bass_line(r, scale, track_spec.pattern),
                           track_spec, INSTRUMENTS.electric_bass_finger))
          [] track_type = "drums" ->
                 Require(track_spec, "pattern",
                     LET call == create_drum_pattern(track_spec.pattern,
                                     Get(track_spec, "measures", 4), ts)
                     IN  IF Failed(call) THEN call ELSE Returned(<<call.value>>))
          [] OTHER -> Returned(<<>>)

\* Variant: an unknown scale name falls back to the default scale
JsonHeaderDefaultScale(d) ==
    LET key == note_name_to_midi(Get(d, "key", <<"C">>), Get(d, "octave", 4))
        scale_name == Get(d, "scale", "MAJOR")
    IN  IF Failed(key) THEN key
        ELSE Returned([root |-> key.value,
                       scale_type |-> IF scale_name \in DOMAIN ScaleType
                                      THEN scale_name ELSE "MAJOR"])

\* Lines 239-246 of create_from_json: key and scale resolution
JsonHeader(d) ==
    LET key == note_name_to_midi(Get(d, "key", <<"C">>), Get(d, "octave", 4))
        scale_name == Get(d, "scale", "MAJOR")
    IN  IF Failed(key) THEN key
        ELSE IF scale_name \notin DOMAIN ScaleType THEN Raise("KeyError", <<scale_name>>)
        ELSE Returned([root |-> key.value, scale_type |-> scale_name])

-----------------------------------------------------------------------------
(* Inputs *)

Chars == {"C", "c", "D", "E", "A", "B", "b", "#", "m", "M", " ", "H"}
Octaves == {-2, 0, 4, 8, 10}
Roots == {0, 20, 60, 110, 127}
Degrees == {-40, -3, 0, 1, 3, 8, 16, 22, 37}
ScaleNames == DOMAIN ScaleType

IdleNote == note_name = NoValue /\ octave = NoValue
IdleChord == quality = NoValue /\ inversion = NoValue /\ octave_doubling = NoValue
IdleBuilder ==
    /\ builder = NoValue /\ progression = NoValue /\ duration_per_chord = NoValue
    /\ pattern = NoValue /\ measures = NoValue
IdleLocals ==
    scale_notes = NoValue /\ idx = 0 /\ current_time = 0 /\ notes = <<>>
IdleJson == data = NoValue /\ tracks = <<>> /\ exported = <<>>
IdleSession ==
    /\ num_octaves = NoValue /\ note_pitch = NoValue /\ note_velocity = NoValue
    /\ tempo = 120 /\ chord_qualities = ChordQuality /\ calls = <<>>
Fresh == pc = "call" /\ result = NoValue /\ raised = NoError

noteVars == <<note_name, octave>>
chordVars == <<quality, inversion, octave_doubling>>
keyVars == <<root, scale_type, time_signature>>
builderVars == <<builder, progression, duration_per_chord, pattern, measures>>
localVars == <<scale_notes, idx, current_time, notes>>
jsonVars == <<data, tracks, exported>>
sessionVars == <<num_octaves, note_pitch, note_velocity, tempo, chord_qualities, calls>>

-----------------------------------------------------------------------------
(* note_name_to_midi on every short token *)

InitNote ==
    /\ Fresh
    /\ note_name \in BoundedSeq(Chars, MaxTokenLen)
    /\ octave \in Octaves
    /\ root = NoValue /\ scale_type = NoValue /\ time_signature = NoValue
    /\ IdleChord /\ IdleBuilder /\ IdleLocals /\ IdleJson /\ IdleSession

NoteNameToMidi ==
    /\ pc = "call"
    /\ LET call == note_name_to_midi(note_name, octave)
       IN  /\ pc' = IF Failed(call) THEN "raised" ELSE "done"
           /\ result' = call.value
           /\ raised' = call.raised
    /\ UNCHANGED <<noteVars, chordVars, sessionVars, keyVars, builderVars, localVars, jsonVars>>

NextNote == NoteNameToMidi

SpecNote == InitNote /\ [][NextNote]_vars

-----------------------------------------------------------------------------
(* create_chord on every quality *)

InitChord ==
    /\ Fresh
    /\ root \in Roots
    /\ quality \in DOMAIN ChordQuality
    /\ inversion \in 0..MaxInversion
    /\ octave_doubling \in BOOLEAN
    /\ scale_type = NoValue /\ time_signature = NoValue
    /\ IdleNote /\ IdleBuilder /\ IdleLocals /\ IdleJson /\ IdleSession

CreateChord ==
    /\ pc = "call"
    /\ pc' = "done"
    /\ result' = create_chord(root, quality, inversion, octave_doubling)
    /\ UNCHANGED <<raised, noteVars, chordVars, sessionVars, keyVars, builderVars, localVars, jsonVars>>

NextChord == CreateChord

SpecChord == InitChord /\ [][NextChord]_vars

-----------------------------------------------------------------------------
(* get_scale_notes, one call per behaviour *)

InitScale ==
    /\ Fresh
    /\ root \in 0..127
    /\ scale_type \in ScaleNames
    /\ num_octaves \in 0..MaxOctaves
    /\ time_signature = NoValue
    /\ note_pitch = NoValue /\ note_velocity = NoValue
    /\ tempo = 120 /\ chord_qualities = ChordQuality /\ calls = <<>>
    /\ IdleNote /\ IdleChord /\ IdleBuilder /\ IdleLocals /\ IdleJson

GetScaleNotes ==
    /\ pc = "call"
    /\ pc' = "done"
    /\ result' = get_scale_notes(root, scale_type, num_octaves)
    /\ UNCHANGED <<raised, noteVars, chordVars, sessionVars, keyVars, builderVars, localVars, jsonVars>>

NextScale == GetScaleNotes

SpecScale == InitScale /\ [][NextScale]_vars

-----------------------------------------------------------------------------
(* Note(...), one construction per behaviour *)

\* Every value up to MaxExcess outside [0,127], and the values -5 and 200
NoteArguments == ((0 - MaxExcess)..(127 + MaxExcess)) \cup {-5, 200}

InitNoteEvent ==
    /\ Fresh
    /\ note_pitch \in NoteArguments
    /\ note_velocity \in {-5, -1, 0, 80, 127, 128, 200}
    /\ num_octaves = NoValue
    /\ tempo = 120 /\ chord_qualities = ChordQuality /\ calls = <<>>
    /\ root = NoValue /\ scale_type = NoValue /\ time_signature = NoValue
    /\ IdleNote /\ IdleChord /\ IdleBuilder /\ IdleLocals /\ IdleJson

ConstructNote ==
    /\ pc = "call"
    /\ pc' = "done"
    /\ result' = Note(note_pitch, 0, TicksPerBeat, note_velocity)
    /\ UNCHANGED <<raised, noteVars, chordVars, sessionVars, keyVars, builderVars, localVars, jsonVars>>

NextNoteEvent == ConstructNote

SpecNoteEvent == InitNoteEvent /\ [][NextNoteEvent]_vars

-----------------------------------------------------------------------------
(* The four track builders, one loop iteration per step *)

\* The pattern of the melody example: (1,1,0), (0,1,0), (2,0.5,0.5)
MelodyExample == << <<1, 10, 0>>, <<0, 10, 0>>, <<2, 5, 5>> >>
\* The progression of examples/basic_progression.py
ProgressionExample == <<1, 4, 5, 1>>

MelodyElems == {<<d, dur, rest>> : d \in {0, 2}, dur \in {-5, 0, 5, 10}, rest \in {0, 5}}
BassElems == {<<d, dur>> : d \in {0, 2, 16}, dur \in {-5, 0, 5, 10}}
DrumEntries ==
    {<<drum, hits>> : drum \in {"kick", "snare", "cowbell"},
                      hits \in {<<>>, <<0>>, <<0, 20>>, <<-5>>}}
\* dict items: no drum name twice
DrumPatterns ==
    {p \in BoundedSeq(DrumEntries, MaxLen) :
        \A a, b \in 1..Len(p) : a # b => p[a][1] # p[b][1]}

\* Every root and scale with a single degree, and one key with longer patterns
InitChordProgression ==
    /\ builder = "chord_progression"
    /\ pattern = NoValue /\ measures = NoValue /\ time_signature = <<4, 4>>
    /\ \/ /\ root \in Roots /\ scale_type \in ScaleNames
          /\ progression \in {<<d>> : d \in Degrees \cup (1..7)} \cup {ProgressionExample}
          /\ duration_per_chord = 4 * TicksPerBeat
       \/ /\ root = 60 /\ scale_type \in {"MAJOR", "MINOR"}
          /\ progression \in BoundedSeq({0, 1, 4, 7}, MaxLen)
          /\ duration_per_chord \in {0, 5, 4 * TicksPerBeat}

InitMelody ==
    /\ builder = "melody"
    /\ progression = NoValue /\ duration_per_chord = NoValue
    /\ measures = NoValue /\ time_signature = <<4, 4>>
    /\ \/ /\ root \in Roots /\ scale_type \in ScaleNames
          /\ pattern \in {<< <<d, TicksPerBeat, 0>> >> : d \in Degrees}
       \/ /\ root = 60 /\ scale_type \in {"MAJOR", "PENTATONIC_MINOR"}
          /\ pattern \in BoundedSeq(MelodyElems, MaxLen) \cup {MelodyExample}

InitBass ==
    /\ builder = "bass"
    /\ progression = NoValue /\ duration_per_chord = NoValue
    /\ measures = NoValue /\ time_signature = <<4, 4>>
    /\ \/ /\ root \in Roots /\ scale_type \in ScaleNames
          /\ pattern \in {<< <<d, TicksPerBeat>> >> : d \in Degrees}
       \/ /\ root = 60 /\ scale_type \in {"MAJOR", "PENTATONIC_MINOR"}
          /\ pattern \in BoundedSeq(BassElems, MaxLen)

InitDrums ==
    /\ builder = "drums"
    /\ progression = NoValue /\ duration_per_chord = NoValue
    /\ root = NoValue /\ scale_type = NoValue
    /\ pattern \in DrumPatterns
    /\ measures \in 0..MaxMeasures
    /\ time_signature \in {<<4, 4>>, <<3, 4>>}

InitBuild ==
    /\ Fresh
    /\ IdleNote /\ IdleChord /\ IdleLocals /\ IdleJson /\ IdleSession
    /\ \/ InitChordProgression
       \/ InitMelody
       \/ InitBass
       \/ InitDrums

\* The statements before the loop
BuilderBegin ==
    /\ pc = "call"
    /\ pc' = "loop"
    /\ scale_notes' =
          CASE builder \in {"chord_progression", "melody"} ->
                   get_scale_notes(root, scale_type, 3)
            [] builder = "bass" -> BassNotes(root, scale_type)
            [] builder = "drums" -> NoValue
    /\ idx' = 0 /\ current_time' = 0 /\ notes' = <<>>
    /\ UNCHANGED <<result, raised, noteVars, chordVars, sessionVars, keyVars, builderVars, jsonVars>>

\* The effect of one loop body on the builder's locals
LoopBody(st) ==
    /\ IF st.raised.type # ""
       THEN /\ pc' = "raised"
            /\ raised' = st.raised
            /\ UNCHANGED <<idx, current_time, notes>>
       ELSE /\ pc' = "loop"
            /\ idx' = idx + 1
            /\ current_time' = st.current_time
            /\ notes' = st.notes
            /\ UNCHANGED raised
    /\ UNCHANGED <<result, scale_notes, noteVars, chordVars, sessionVars, keyVars, builderVars, jsonVars>>

ChordProgressionStep ==
    /\ pc = "loop" /\ builder = "chord_progression"
    /\ idx < Len(progression)
    /\ LoopBody(ChordProgressionElem(BuilderState(notes, current_time, NoError),
                    progression[idx + 1], scale_notes, root, scale_type,
                    duration_per_chord))

MelodyStep ==
    /\ pc = "loop" /\ builder = "melody"
    /\ idx < Len(pattern)
    /\ LoopBody(MelodyElem(BuilderState(notes, current_time, NoError),
                           pattern[idx + 1], scale_notes))

BassStep ==
    /\ pc = "loop" /\ builder = "bass"
    /\ idx < Len(pattern)
    /\ LoopBody(BassElem(BuilderState(notes, current_time, NoError),
                         pattern[idx + 1], scale_notes))

DrumStep ==
    /\ pc = "loop" /\ builder = "drums"
    /\ idx < measures
    /\ LoopBody(DrumMeasure(BuilderState(notes, current_time, NoError),
                            idx, pattern, time_signature))

\* Number of iterations the running builder's loop makes
LoopLength ==
    CASE builder = "chord_progression" -> Len(progression)
      [] builder \in {"melody", "bass"} -> Len(pattern)
      [] builder = "drums" -> measures

BuilderReturn ==
    /\ pc = "loop"
    /\ idx >= LoopLength
    /\ pc' = "done"
    /\ result' = BuilderTrack(builder, notes)
    /\ UNCHANGED <<raised, noteVars, chordVars, sessionVars, keyVars, builderVars, localVars, jsonVars>>

NextBuild ==
    \/ BuilderBegin
    \/ ChordProgressionStep
    \/ MelodyStep
    \/ BassStep
    \/ DrumStep
    \/ BuilderReturn

SpecBuild == InitBuild /\ [][NextBuild]_vars

-----------------------------------------------------------------------------
(* create_from_json called by generate_from_description *)

TrackSpecs ==
    { [type |-> "chord_progression", progression |-> <<1, 4>>],
      [type |-> "chord_progression", progression |-> <<1>>,
       duration_per_chord |-> 20, instrument |-> "rhodes"],
      [type |-> "chord_progression"],
      [type |-> "chord_progression", progression |-> <<-40>>],
      [type |-> "melody", pattern |-> MelodyExample, instrument |-> "kazoo"],
      [type |-> "melody", instrument |-> "violin"],
      [type |-> "bass", pattern |-> << <<1, 10>>, <<16, 10>> >>],
      [type |-> "bass"],
      [type |-> "drums", pattern |-> << <<"kick", <<0, 20>> >> >>, measures |-> 2],
      [type |-> "drums", measures |-> 1],
      [type |-> "strings", pattern |-> MelodyExample],
      [instrument |-> "violin"] }

\* Optional header fields: a record with the field, or without it
KeyChoices == {<<>>, [key |-> <<"B", "b">>], [key |-> <<"H">>]}
ScaleChoices == {<<>>, [scale |-> "MINOR"], [scale |-> "LYDIAN_DOMINANT"]}
MeterChoices == {<<>>, [time_signature |-> <<3, 4>>]}

DataSpecs ==
    {k @@ s @@ m @@ [tracks |-> t] :
        k \in KeyChoices, s \in ScaleChoices, m \in MeterChoices,
        t \in BoundedSeq(TrackSpecs, MaxTracks)}

\* A response whose <midi_spec> block parses, or one parse_llm_response
\* rejects (pc = "unparsed")
InitJson ==
    /\ \/ Fresh /\ data \in DataSpecs
       \/ /\ pc = "unparsed" /\ result = NoValue /\ raised = NoError
          /\ data = [tracks |-> <<>>]
    /\ tracks = <<>> /\ exported = <<>>
    /\ root = NoValue /\ scale_type = NoValue /\ time_signature = NoValue
    /\ IdleNote /\ IdleChord /\ IdleBuilder /\ IdleLocals /\ IdleSession

\* composer construction, key and scale resolution
LoadHeader ==
    /\ pc = "call"
    /\ LET header == JsonHeader(data)
       IN  IF Failed(header)
           THEN /\ pc' = "raised"
                /\ raised' = header.raised
                /\ UNCHANGED keyVars
           ELSE /\ pc' = "tracks"
                /\ root' = header.value.root
                /\ scale_type' = header.value.scale_type
                /\ time_signature' = Get(data, "time_signature", <<4, 4>>)
                /\ UNCHANGED raised
    /\ UNCHANGED <<result, noteVars, chordVars, sessionVars, builderVars, localVars, jsonVars>>

\* Variant: add_track puts the new track in front of the list
LoadTrackInsertsFirst ==
    /\ pc = "tracks"
    /\ idx < Len(Get(data, "tracks", <<>>))
    /\ LET built == TrackFromSpec(data.tracks[idx + 1], root, scale_type, time_signature)
       IN  IF Failed(built)
           THEN /\ pc' = "raised"
                /\ raised' = built.raised
                /\ UNCHANGED <<idx, tracks>>
           ELSE /\ pc' = "tracks"
                /\ tracks' = built.value \o tracks
                /\ idx' = idx + 1
                /\ UNCHANGED raised
    /\ UNCHANGED <<result, noteVars, chordVars, sessionVars, keyVars, builderVars, scale_notes,
                   current_time, notes, data, exported>>

\* One descriptor: dispatch, builder call, instrument, add_track
LoadTrack ==
    /\ pc = "tracks"
    /\ idx < Len(Get(data, "tracks", <<>>))
    /\ LET built == TrackFromSpec(data.tracks[idx + 1], root, scale_type, time_signature)
       IN  IF Failed(built)
           THEN /\ pc' = "raised"
                /\ raised' = built.raised
                /\ UNCHANGED <<idx, tracks>>
           ELSE /\ pc' = "tracks"
                /\ tracks' = tracks \o built.value
                /\ idx' = idx + 1
                /\ UNCHANGED raised
    /\ UNCHANGED <<result, noteVars, chordVars, sessionVars, keyVars, builderVars, scale_notes,
                   current_time, notes, data, exported>>

\* return composer
LoadReturn ==
    /\ pc = "tracks"
    /\ idx >= Len(Get(data, "tracks", <<>>))
    /\ pc' = "returned"
    /\ result' = [tempo |-> Get(data, "tempo", 120),
                  time_signature |-> time_signature, tracks |-> tracks]
    /\ UNCHANGED <<raised, noteVars, chordVars, sessionVars, keyVars, builderVars, localVars, jsonVars>>

\* generate_from_description: no valid <midi_spec> in the response: return None
RejectResponse ==
    /\ pc = "unparsed"
    /\ pc' = "failed"
    /\ UNCHANGED <<result, raised, noteVars, chordVars, sessionVars, keyVars, builderVars, localVars,
                   jsonVars>>

\* Variant: the export sits in a finally clause and also runs after a failure
ExportToMidiInFinally ==
    /\ pc \in {"returned", "raised"}
    /\ pc' = IF pc = "returned" THEN "done" ELSE "failed"
    /\ exported' = Append(exported, [tempo |-> Get(data, "tempo", 120),
                                     time_signature |-> time_signature,
                                     tracks |-> tracks])
    /\ UNCHANGED <<result, raised, noteVars, chordVars, sessionVars, keyVars, builderVars, localVars,
                   data, tracks>>

\* generate_from_description: composer.export_to_midi(filename); return filename
ExportToMidi ==
    /\ pc = "returned"
    /\ pc' = "done"
    /\ exported' = Append(exported, result)
    /\ UNCHANGED <<result, raised, noteVars, chordVars, sessionVars, keyVars, builderVars, localVars,
                   data, tracks>>

\* generate_from_description: except Exception: return None
CatchError ==
    /\ pc = "raised"
    /\ pc' = "failed"
    /\ UNCHANGED <<result, raised, noteVars, chordVars, sessionVars, keyVars, builderVars, localVars,
                   jsonVars>>

NextJson ==
    \/ RejectResponse
    \/ LoadHeader
    \/ LoadTrack
    \/ LoadReturn
    \/ ExportToMidi
    \/ CatchError

SpecJson == InitJson /\ [][NextJson]_vars

-----------------------------------------------------------------------------
(* A session of builder calls on one composer *)

InitSession ==
    /\ Fresh
    /\ tempo = 120 /\ time_signature = <<4, 4>> /\ tracks = <<>>
    /\ chord_qualities = ChordQuality
    /\ calls = <<>>
    /\ num_octaves = NoValue /\ note_pitch = NoValue /\ note_velocity = NoValue
    /\ root = NoValue /\ scale_type = NoValue
    /\ data = NoValue /\ exported = <<>>
    /\ IdleNote /\ IdleChord /\ IdleBuilder /\ IdleLocals

\* The call is logged with its arguments and its result
Logged(op, args, value) ==
    /\ pc = "call"
    /\ Len(calls) < MaxCalls
    /\ calls' = Append(calls, [op |-> op, args |-> args, result |-> value])
    /\ result' = value
    /\ UNCHANGED <<pc, raised, noteVars, chordVars, keyVars, builderVars, localVars,
                   jsonVars, num_octaves, note_pitch, note_velocity, tempo>>

CallGetScaleNotes ==
    \E scale \in {"MAJOR", "BLUES"} :
        /\ Logged("get_scale_notes", <<60, scale, 2>>, get_scale_notes(60, scale, 2))
        /\ UNCHANGED chord_qualities

CallCreateChord ==
    \E inv \in {0, 1, 2}, doubling \in BOOLEAN :
        LET built == ChordIntervals(chord_qualities, "MAJOR", inv)
        IN  /\ Logged("create_chord", <<60, "MAJOR", inv, doubling>>,
                      ChordFromIntervals(60, built.intervals, doubling))
            /\ chord_qualities' = built.values

CallCreateChordProgression ==
    \E prog \in {ProgressionExample, <<-40>>} :
        /\ Logged("create_chord_progression", <<60, "MAJOR", prog, 4 * TicksPerBeat>>,
                  create_chord_progression(60, "MAJOR", prog, 4 * TicksPerBeat))
        /\ UNCHANGED chord_qualities

CallCreateMelody ==
    /\ Logged("create_melody", <<60, "MAJOR", MelodyExample>>,
              create_melody(60, "MAJOR", MelodyExample))
    /\ UNCHANGED chord_qualities

CallCreateBassLine ==
    LET pat == << <<1, 10>>, <<16, 10>> >>
    IN  /\ Logged("create_bass_line", <<60, "MAJOR", pat>>,
                  create_bass_line(60, "MAJOR", pat))
        /\ UNCHANGED chord_qualities

CallCreateDrumPattern ==
    \E count \in {1, 2} :
        LET pat == << <<"kick", <<0, 20>> >> >>
        IN  /\ Logged("create_drum_pattern", <<pat, count>>,
                      create_drum_pattern(pat, count, time_signature))
            /\ UNCHANGED chord_qualities

NextSession ==
    \/ CallGetScaleNotes
    \/ CallCreateChord
    \/ CallCreateChordProgression
    \/ CallCreateMelody
    \/ CallCreateBassLine
    \/ CallCreateDrumPattern

SpecSession == InitSession /\ [][NextSession]_vars

-----------------------------------------------------------------------------
(* Properties *)

SeqToSet(q) == {q[k] : k \in 1..Len(q)}
IsAscending(q) == \A a, b \in 1..Len(q) : a < b => q[a] <= q[b]
SetMin(S) == CHOOSE m \in S : \A x \in S : m <= x

RECURSIVE SumTo(_, _)
\* Sum of duration + rest over the first k elements of a melody pattern
SumTo(pat, k) == IF k = 0 THEN 0 ELSE SumTo(pat, k - 1) + pat[k][2] + pat[k][3]

\* Positions, among the first k elements, of the elements with a positive degree
PositivePositions(pat, k) ==
    SelectSeq([j \in 1..k |-> j], LAMBDA j : pat[j][1] > 0)

\* Pitches of the notes that start where the i-th chord starts
ChordPitches(i) ==
    {notes[k].pitch : k \in {j \in 1..Len(notes) :
                                notes[j].start_time = (i - 1) * duration_per_chord}}

\* C1: in create_melody every positive degree d is emitted at pitch
\* root + offsets[(d-1) mod n] + 12 * ((d-1) div n), saturated to [0,127],
\* with n the length of the scale definition, also for degrees beyond the
\* 3-octave expansion.
C1_MelodyPitchByScaleLength ==
    (builder = "melody" /\ pc = "done") =>
        LET pos == PositivePositions(pattern, Len(pattern))
            offsets == ScaleType[scale_type]
            n == Len(offsets)
        IN  /\ Len(notes) = Len(pos)
            /\ \A j \in 1..Len(pos) :
                  LET d == pattern[pos[j]][1]
                  IN  notes[j].pitch =
                          Clamp(root + offsets[((d - 1) % n) + 1] + 12 * ((d - 1) \div n))

\* C2: in create_chord_progression the chord root of a degree outside
\* 1..len(scale_notes) is the unmodified root, and of a degree inside it the
\* degree-th entry of the 3-octave expansion.
C2_ChordRootFallsBackToRoot ==
    (builder = "chord_progression" /\ pc \in {"loop", "done", "raised"}
       /\ duration_per_chord > 0) =>
        /\ pc # "raised"
        /\ \A i \in 1..idx :
              LET d == progression[i]
                  expected == IF d < 1 \/ d > Len(scale_notes) THEN root
                              ELSE scale_notes[d]
              IN  ChordPitches(i) # {} /\ SetMin(ChordPitches(i)) = expected

InvertedTones(r, q, k) ==
    LET offsets == ChordQuality[q]
    IN  {r + offsets[j] + (IF j <= k THEN 12 ELSE 0) : j \in 1..Len(offsets)}

\* C4 as stated: without doubling, for every quality and every k > 0 the
\* output holds the k lowest original tones one octave up and every other tone
\* unchanged, sorted ascending; for k = 0 the first pitch is the root.
C4_InversionRaisesLowestTones ==
    (pc = "done" /\ ~octave_doubling) =>
        /\ IsAscending(result)
        /\ inversion > 0 => SeqToSet(result) = InvertedTones(root, quality, inversion)
        /\ inversion = 0 => result # <<>> /\ result[1] = root

\* C4 amended: the same for every k from 1 to the number of the quality's
\* offsets below 12, with the pitches outside [0,127] dropped; the output is
\* sorted ascending for every k; for k = 0 the first pitch is the root.
C4_InversionWithinOneOctave ==
    (pc = "done" /\ ~octave_doubling) =>
        /\ IsAscending(result)
        /\ (inversion > 0
              /\ inversion <= Cardinality({o \in SeqToSet(ChordQuality[quality]) : o < 12})) =>
              /\ SeqToSet(result) =
                     {p \in InvertedTones(root, quality, inversion) : InMidiRange(p)}
              /\ Len(result) = Cardinality(SeqToSet(result))
        /\ inversion = 0 => result # <<>> /\ result[1] = root

C4_Witness ==
    /\ pc = "done" /\ ~octave_doubling
    /\ root = 60 /\ quality = "MINOR7" /\ inversion = 2
    /\ result = <<67, 70, 72, 75>>

\* C5: with octave_doubling the output is the output without doubling plus
\* exactly one pitch, root + 12, for every quality and inversion count; that
\* pitch is missing only when it is outside [0,127].
C5_DoublingAddsRootOctave ==
    (pc = "done" /\ octave_doubling) =>
        LET plain == create_chord(root, quality, inversion, FALSE)
        IN  IF InMidiRange(root + 12)
            THEN \E k \in 1..Len(result) :
                    /\ result[k] = root + 12
                    /\ SubSeq(result, 1, k - 1) \o SubSeq(result, k + 1, Len(result)) = plain
            ELSE result = plain

\* The field the descriptor's declared type requires ("" when none)
RequiredField(track_spec) ==
    LET track_type == Get(track_spec, "type", "None")
    IN  IF track_type = "chord_progression" THEN "progression"
        ELSE IF track_type \in {"melody", "bass", "drums"} THEN "pattern"
        ELSE ""

LacksRequiredField(track_spec) ==
    RequiredField(track_spec) # "" /\ RequiredField(track_spec) \notin DOMAIN track_spec

\* create_from_json has stopped at descriptor idx + 1, which lacks its field
StoppedAtMissingField ==
    /\ pc \in {"raised", "failed"}
    /\ scale_type # NoValue
    /\ idx < Len(data.tracks)
    /\ LacksRequiredField(data.tracks[idx + 1])

\* C6 as stated: a descriptor that lacks its required field makes
\* create_from_json fail with an error that names the missing field and the
\* track index, and no composition is returned.
C6_MissingFieldNamesFieldAndIndex ==
    StoppedAtMissingField =>
        /\ raised.type = "KeyError"
        /\ Len(raised.args) = 2
        /\ raised.args[1] = RequiredField(data.tracks[idx + 1])
        /\ raised.args[2] \in {idx, idx + 1}
        /\ result = NoValue

\* C6 amended: when the key and scale resolve and no earlier descriptor
\* fails, a descriptor that lacks its required field makes create_from_json
\* fail with a KeyError whose only argument is the field's name; whenever a
\* descriptor lacks its required field no composition is returned and nothing
\* is exported.
C6_MissingFieldRaisesKeyError ==
    /\ StoppedAtMissingField =>
          /\ raised = [type |-> "KeyError",
                       args |-> <<RequiredField(data.tracks[idx + 1])>>]
          /\ result = NoValue
          /\ exported = <<>>
    /\ (pc \in {"tracks", "returned", "done"}) =>
          \A i \in 1..(IF pc = "tracks" THEN idx ELSE Len(data.tracks)) :
              ~LacksRequiredField(data.tracks[i])
    /\ (\E i \in 1..Len(data.tracks) : LacksRequiredField(data.tracks[i])) =>
          result = NoValue /\ exported = <<>>

C6_Witness ==
    /\ pc = "failed"
    /\ idx = 1 /\ Len(tracks) = 1
    /\ Len(data.tracks) = 2
    /\ data.tracks[2] = [type |-> "drums", measures |-> 1]
    /\ raised = [type |-> "KeyError", args |-> <<"pattern">>]
    /\ result = NoValue /\ exported = <<>>

UnknownScale == "scale" \in DOMAIN data /\ data.scale \notin DOMAIN ScaleType
KeyResolves == ~Failed(note_name_to_midi(Get(data, "key", <<"C">>), 4))

\* C7 as stated: every specification with an unknown scale name fails with
\* the unknown-scale error before any track is built, and no composition is
\* returned.
C7_UnknownScaleAlwaysReported ==
    (UnknownScale /\ pc # "call") =>
        /\ pc \in {"raised", "failed"}
        /\ raised = [type |-> "KeyError", args |-> <<data.scale>>]
        /\ idx = 0 /\ tracks = <<>> /\ result = NoValue

\* C7 amended: a specification with an unknown scale name fails before any
\* track is built and no composition is returned; the failure is the
\* unknown-scale KeyError when the key resolves, and the invalid-note-name
\* ValueError of the key, which is resolved first, when it does not.
C7_UnknownScaleFailsBeforeTracks ==
    (UnknownScale /\ pc # "call") =>
        /\ pc \in {"raised", "failed"}
        /\ IF KeyResolves
           THEN raised = [type |-> "KeyError", args |-> <<data.scale>>]
           ELSE raised.type = "ValueError"
        /\ idx = 0 /\ tracks = <<>> /\ result = NoValue /\ exported = <<>>

C7_Witness ==
    /\ pc = "failed"
    /\ UnknownScale /\ "key" \notin DOMAIN data
    /\ Len(data.tracks) = 2
    /\ raised = [type |-> "KeyError", args |-> <<"LYDIAN_DOMINANT">>]
    /\ tracks = <<>> /\ result = NoValue

\* The names C8 lists: the 12 chromatic names and the five flat aliases
ListedNames ==
    SeqToSet(NOTE_NAMES) \cup
        {<<"D", "b">>, <<"E", "b">>, <<"G", "b">>, <<"A", "b">>, <<"B", "b">>}

\* C8 as stated: note_name_to_midi succeeds exactly for the 12 chromatic
\* names and the flat aliases Db, Eb, Gb, Ab, Bb, and fails for every other
\* token.
C8_SucceedsExactlyForListedNames ==
    (pc # "call") => (pc = "done" <=> note_name \in ListedNames)

\* The token after every "m" is removed, the ends are stripped and the rest
\* is upper-cased
Normalised(token) == StrUpper(StrStrip(StrRemove(token, "m")))

\* C8 amended: note_name_to_midi succeeds exactly for the tokens that, after
\* every "m" is removed, surrounding whitespace is stripped and the rest is
\* upper-cased, are one of the 12 chromatic names or one of DB, EB, GB, AB,
\* BB; every other token fails with ValueError and returns no pitch.
C8_SucceedsExactlyForNormalisedNames ==
    (pc # "call") =>
        IF Normalised(note_name) \in SeqToSet(NOTE_NAMES) \cup
               {<<"D", "B">>, <<"E", "B">>, <<"G", "B">>, <<"A", "B">>, <<"B", "B">>}
        THEN pc = "done" /\ raised = NoError /\ result \in 0..127
        ELSE pc = "raised" /\ raised.type = "ValueError" /\ result = NoValue

C8_Witness ==
    /\ pc = "done"
    /\ note_name = <<" ", "b", "b">> /\ octave = 4
    /\ result = 70

\* The notes the running builder has emitted are within the data model
PitchAndVelocityInRange ==
    \A k \in 1..Len(notes) : notes[k].pitch \in 0..127 /\ notes[k].velocity \in 0..127
TimesInRange ==
    \A k \in 1..Len(notes) : notes[k].start_time >= 0 /\ notes[k].duration > 0

\* The builder's input has positive durations and no negative rest or offset
InputTimesValid ==
    CASE builder = "chord_progression" -> duration_per_chord > 0
      [] builder = "melody" ->
             \A k \in 1..Len(pattern) : pattern[k][2] > 0 /\ pattern[k][3] >= 0
      [] builder = "bass" -> \A k \in 1..Len(pattern) : pattern[k][2] > 0
      [] builder = "drums" ->
             /\ time_signature[1] >= 0
             /\ \A k \in 1..Len(pattern) :
                   \A h \in 1..Len(pattern[k][2]) : pattern[k][2][h] >= 0

\* C9 as stated: for any input pattern every note of every builder has pitch
\* and velocity in [0,127], start_time >= 0 and duration > 0.
C9_EveryNoteInDataModel ==
    (pc \in {"loop", "done"}) => PitchAndVelocityInRange /\ TimesInRange

\* C9 amended: for any input pattern every note of every builder has pitch
\* and velocity in [0,127]; start_time >= 0 and duration > 0 hold when every
\* duration of the input is positive and no rest, hit offset or
\* beats-per-measure is negative.
C9_NotesInDataModelForValidTimes ==
    (pc \in {"loop", "done"}) =>
        /\ PitchAndVelocityInRange
        /\ InputTimesValid => TimesInRange
        /\ pc = "done" => result.notes = notes

C9_Witness ==
    /\ builder = "melody" /\ pc = "done"
    /\ root = 127 /\ pattern = << <<22, 10, 0>> >>
    /\ result.notes = <<[pitch |-> 127, start_time |-> 0, duration |-> 10, velocity |-> 85]>>

\* C10: create_melody emits a note for exactly the elements with degree > 0
\* and advances the cursor by duration + rest for every element: the j-th note
\* belongs to the j-th positive-degree element and starts at the sum of
\* duration + rest over the elements before it, and the cursor is that sum
\* over all elements consumed.
C10_MelodyCursor ==
    (builder = "melody" /\ pc \in {"loop", "done"}) =>
        LET pos == PositivePositions(pattern, idx)
        IN  /\ Len(notes) = Len(pos)
            /\ current_time = SumTo(pattern, idx)
            /\ \A j \in 1..Len(pos) :
                  /\ notes[j].start_time = SumTo(pattern, pos[j] - 1)
                  /\ notes[j].duration = pattern[pos[j]][2]
            /\ pc = "done" => idx = Len(pattern)

C10_Witness ==
    /\ builder = "melody" /\ pc = "done"
    /\ pattern = MelodyExample
    /\ Len(notes) = 2
    /\ notes[2].start_time = 20
    /\ current_time = 30

\* C11: in create_chord_progression the cursor starts at 0 and advances by
\* exactly duration_per_chord after each degree, so after idx chords it is
\* idx * duration_per_chord; every note has duration duration_per_chord and
\* velocity 70 and starts where one of the chords consumed so far starts, the
\* notes are emitted in chord order, and each chord consumed left at least
\* one note at (i - 1) * duration_per_chord.
C11_ChordCursor ==
    (builder = "chord_progression" /\ pc \in {"loop", "done", "raised"}) =>
        /\ current_time = idx * duration_per_chord
        /\ \A k \in 1..Len(notes) :
              /\ notes[k].duration = duration_per_chord
              /\ notes[k].velocity = 70
              /\ \E i \in 1..idx : notes[k].start_time = (i - 1) * duration_per_chord
        /\ \A a, b \in 1..Len(notes) :
              a < b => notes[a].start_time <= notes[b].start_time
        /\ \A i \in 1..idx :
              \E k \in 1..Len(notes) : notes[k].start_time = (i - 1) * duration_per_chord
        /\ pc = "loop" /\ idx = 0 => notes = <<>>
        /\ pc = "done" => idx = Len(progression) /\ result.notes = notes

C11_Witness ==
    /\ builder = "chord_progression" /\ pc = "done"
    /\ root = 127 /\ progression = ProgressionExample
    /\ Len(notes) = 4
    /\ notes[4].start_time = 3 * duration_per_chord
    /\ current_time = 4 * duration_per_chord

RECURSIVE DurationsTo(_, _)
\* Sum of the durations of the first k elements of a bass pattern
DurationsTo(pat, k) == IF k = 0 THEN 0 ELSE DurationsTo(pat, k - 1) + pat[k][2]

\* Positions, among the first k elements of a bass pattern, of the elements
\* whose degree lies in 1..n
IndexablePositions(pat, k, n) ==
    SelectSeq([j \in 1..k |-> j], LAMBDA j : 1 <= pat[j][1] /\ pat[j][1] <= n)

\* C12: create_bass_line emits one note, with velocity 90, the element's
\* duration and the cursor as start, for exactly the elements whose degree d
\* satisfies 1 <= d <= len(bass_notes), taking bass_notes[d - 1] without
\* wrapping around, and advances the cursor by the duration for every
\* element, emitted or not.
C12_BassDegreeWithinList ==
    (builder = "bass" /\ pc \in {"loop", "done"}) =>
        LET pos == IndexablePositions(pattern, idx, Len(scale_notes))
        IN  /\ Len(notes) = Len(pos)
            /\ current_time = DurationsTo(pattern, idx)
            /\ \A j \in 1..Len(pos) :
                  /\ notes[j].start_time = DurationsTo(pattern, pos[j] - 1)
                  /\ notes[j].duration = pattern[pos[j]][2]
                  /\ notes[j].velocity = 90
                  /\ notes[j].pitch = scale_notes[pattern[pos[j]][1]]
            /\ pc = "done" => idx = Len(pattern) /\ result.notes = notes

C12_Witness ==
    /\ builder = "bass" /\ pc = "done"
    /\ root = 60 /\ scale_type = "MAJOR"
    /\ pattern = << <<16, 5>>, <<2, 10>> >>
    /\ Len(scale_notes) = 14
    /\ notes = <<[pitch |-> 38, start_time |-> 5, duration |-> 10, velocity |-> 90]>>
    /\ current_time = 15

RECURSIVE RecognizedHits(_)
\* Number of hits a drum pattern lists under the drums of DRUM_MAP
RecognizedHits(pat) ==
    IF pat = <<>> THEN 0
    ELSE (IF Head(pat)[1] \in DOMAIN DRUM_MAP THEN Len(Head(pat)[2]) ELSE 0)
         + RecognizedHits(Tail(pat))

\* C13: create_drum_pattern emits, for each measure m, each drum of DRUM_MAP in
\* the pattern and each of its hits h, exactly one note at
\* m * beats_per_measure + h with the drum's pitch code, duration 0.1 and
\* velocity 95; other drums add nothing, so the note count is the number of
\* measures times the number of recognized hits; the track is on channel 9.
C13_DrumHitsPerMeasure ==
    (builder = "drums" /\ pc \in {"loop", "done"}) =>
        /\ Len(notes) = idx * RecognizedHits(pattern)
        /\ \A m \in 0..(idx - 1) : \A k \in 1..Len(pattern) :
              pattern[k][1] \in DOMAIN DRUM_MAP =>
                 \A h \in 1..Len(pattern[k][2]) :
                    Cardinality({j \in 1..Len(notes) :
                        notes[j] = [pitch |-> DRUM_MAP[pattern[k][1]],
                                    start_time |-> (m * time_signature[1] * TicksPerBeat)
                                                   + pattern[k][2][h],
                                    duration |-> DrumDuration,
                                    velocity |-> 95]}) = 1
        /\ pc = "done" =>
              /\ idx = measures
              /\ result.notes = notes
              /\ result.channel = 9

C13_Witness ==
    /\ builder = "drums" /\ pc = "done"
    /\ pattern = << <<"kick", <<0, 20>> >>, <<"cowbell", <<0>> >> >>
    /\ measures = 2 /\ time_signature = <<4, 4>>
    /\ [k \in 1..Len(notes) |-> notes[k].start_time] = <<0, 20, 40, 60>>
    /\ \A k \in 1..Len(notes) : notes[k].pitch = 36

\* The intervals of the diatonic triad named by the rule of C14
DiatonicTriad(scale, degree) ==
    LET majorTriad == {0, 4, 7}
        minorTriad == {0, 3, 7}
        diminishedTriad == {0, 3, 6}
    IN  CASE scale = "MAJOR" /\ degree \in {2, 3, 6} -> minorTriad
          [] scale = "MAJOR" /\ degree = 7 -> diminishedTriad
          [] scale = "MAJOR" /\ degree \notin {2, 3, 6, 7} -> majorTriad
          [] scale # "MAJOR" /\ degree \in {3, 6, 7} -> majorTriad
          [] scale # "MAJOR" /\ degree = 2 -> diminishedTriad
          [] scale # "MAJOR" /\ degree \notin {2, 3, 6, 7} -> minorTriad

\* C14: the chord create_chord_progression emits for a degree is the diatonic
\* triad of the rule (MAJOR scale: 1,4,5 major, 2,3,6 minor, 7 diminished,
\* other major; any other scale: 3,6,7 major, 1,4,5 minor, 2 diminished, other
\* minor): its pitches are its lowest pitch plus the triad's intervals, as far
\* as they lie in [0,127].
C14_DiatonicQuality ==
    (builder = "chord_progression" /\ pc \in {"loop", "done"}
        /\ duration_per_chord > 0) =>
        \A i \in 1..idx :
            LET chord == ChordPitches(i)
                chord_root == SetMin(chord)
            IN  /\ chord # {}
                /\ chord = {chord_root + o : o \in DiatonicTriad(scale_type, progression[i])}
                              \cap (0..127)

C14_Witness ==
    /\ builder = "chord_progression" /\ pc = "done"
    /\ root = 60 /\ scale_type = "DORIAN" /\ progression = <<2>>
    /\ ChordPitches(1) = {62, 65, 68}

\* The notes of octave o of the scale that lie in [0,127], in definition order
ScaleOctave(o) ==
    SelectSeq([j \in 1..Len(ScaleType[scale_type]) |->
                  root + 12 * o + ScaleType[scale_type][j]],
              LAMBDA note : 0 <= note /\ note <= 127)

RECURSIVE ScaleOctavesFrom(_)
\* The octaves o, o + 1, ..., num_octaves - 1 one after the other
ScaleOctavesFrom(o) ==
    IF o >= num_octaves THEN <<>> ELSE ScaleOctave(o) \o ScaleOctavesFrom(o + 1)

\* C15: for a root in [0,127] get_scale_notes returns exactly the values
\* root + 12 * o + offset, octave by octave and offset by offset in definition
\* order, that lie in [0,127]; the result is non-decreasing, has at most
\* octaves * len(offsets) elements, and every element lies in [0,127].
C15_ScaleExpansion ==
    pc = "done" =>
        /\ result = ScaleOctavesFrom(0)
        /\ IsAscending(result)
        /\ Len(result) <= num_octaves * Len(ScaleType[scale_type])
        /\ \A k \in 1..Len(result) : 0 <= result[k] /\ result[k] <= 127

C15_Witness ==
    /\ pc = "done" /\ num_octaves = 2
    /\ root = 110 /\ scale_type = "PENTATONIC_MINOR"
    /\ result = <<110, 113, 115, 117, 120, 122, 125, 127>>

\* The chromatic index of the 12 chromatic names and of the flat aliases
ChromaticIndex ==
    (<<"C">> :> 0) @@ (<<"C", "#">> :> 1) @@ (<<"D">> :> 2) @@ (<<"D", "#">> :> 3)
    @@ (<<"E">> :> 4) @@ (<<"F">> :> 5) @@ (<<"F", "#">> :> 6) @@ (<<"G">> :> 7)
    @@ (<<"G", "#">> :> 8) @@ (<<"A">> :> 9) @@ (<<"A", "#">> :> 10) @@ (<<"B">> :> 11)
    @@ (<<"D", "B">> :> 1) @@ (<<"E", "B">> :> 3) @@ (<<"G", "B">> :> 6)
    @@ (<<"A", "B">> :> 8) @@ (<<"B", "B">> :> 10)

\* C16: for every accepted note name, flat aliases included, and every octave
\* note_name_to_midi returns min(127, max(0, (octave + 1) * 12 + index)) with
\* index the chromatic index of the name (of the equivalent sharp for a flat);
\* for the octaves 0..8 that is (octave + 1) * 12 + index itself.
C16_PitchOfNameAndOctave ==
    (pc = "done") =>
        /\ Normalised(note_name) \in DOMAIN ChromaticIndex
        /\ LET number == (octave + 1) * 12 + ChromaticIndex[Normalised(note_name)]
           IN  /\ result = Min(127, Max(0, number))
               /\ octave \in 0..8 => result = number /\ result \in 0..127

C16_Witness ==
    /\ pc = "done"
    /\ note_name = <<"E", "b">> /\ octave = 10
    /\ result = 127

\* The value x saturated to [0,127]
Saturated(x) == IF x < 0 THEN 0 ELSE IF x > 127 THEN 127 ELSE x

\* C17: constructing a Note never fails and saturates: the pitch stored is
\* min(127, max(0, pitch)) and the velocity stored is
\* min(127, max(0, velocity)); start_time and duration are stored as given.
C17_NoteSaturates ==
    (pc = "done") =>
        /\ raised = NoError
        /\ result.pitch = Saturated(note_pitch)
        /\ result.velocity = Saturated(note_velocity)
        /\ result.start_time = 0 /\ result.duration = TicksPerBeat

C17_Witness ==
    /\ pc = "done"
    /\ note_pitch = 200 /\ note_velocity = -5
    /\ result.pitch = 127 /\ result.velocity = 0

\* C18: export_to_midi is invoked only after create_from_json has returned the
\* composition built from every descriptor, and then once, with that
\* composition; when the response has no valid specification or
\* create_from_json raises at the header or at any descriptor, nothing is
\* exported and the operation ends in its failure return.
C18_ExportOnlyAfterBuild ==
    /\ exported # <<>> =>
          /\ pc = "done" /\ raised = NoError
          /\ idx = Len(Get(data, "tracks", <<>>))
          /\ exported = <<result>>
          /\ result.tracks = tracks
    /\ pc \in {"unparsed", "raised", "failed"} => exported = <<>> /\ result = NoValue
    /\ raised # NoError => pc \in {"raised", "failed"}
    /\ pc = "done" => Len(exported) = 1

C18_Witness ==
    /\ pc = "failed" /\ raised.type = "KeyError"
    /\ idx = 1 /\ Len(tracks) = 1
    /\ exported = <<>> /\ result = NoValue

\* Name and channel of the track each of the four descriptor types builds
TrackOfType ==
    [chord_progression |-> [name |-> "Chord Progression", channel |-> 0],
     melody            |-> [name |-> "Melody", channel |-> 1],
     bass              |-> [name |-> "Bass", channel |-> 2],
     drums             |-> [name |-> "Drums", channel |-> 9]]

\* The descriptors, among the first k, whose type is one of the four
TypedDescriptors(k) ==
    SelectSeq(SubSeq(data.tracks, 1, k),
              LAMBDA t : Get(t, "type", "None") \in DOMAIN TrackOfType)

\* C19: while create_from_json runs and when it has returned, the track list
\* holds, in descriptor order, exactly one track for each descriptor consumed
\* whose type is chord_progression, melody, bass or drums, the i-th such
\* descriptor giving the i-th track, built by the builder of its type; a
\* descriptor of any other type adds no track and raises no error, and the
\* composition returned holds that list.
C19_TracksInDescriptorOrder ==
    /\ pc \in {"tracks", "returned", "done"} =>
          LET typed == TypedDescriptors(idx)
          IN  /\ Len(tracks) = Len(typed)
              /\ \A j \in 1..Len(typed) :
                    /\ tracks[j].name = TrackOfType[typed[j].type].name
                    /\ tracks[j].channel = TrackOfType[typed[j].type].channel
                    /\ <<tracks[j]>> = TrackFromSpec(typed[j], root, scale_type,
                                                     time_signature).value
              /\ pc \in {"returned", "done"} =>
                    idx = Len(data.tracks) /\ result.tracks = tracks
    /\ (pc \in {"raised", "failed"} /\ scale_type # NoValue) =>
          Get(data.tracks[idx + 1], "type", "None") \in DOMAIN TrackOfType

C19_Witness ==
    /\ pc = "done"
    /\ data.tracks = << [type |-> "strings", pattern |-> MelodyExample],
                        [type |-> "bass", pattern |-> << <<1, 10>>, <<16, 10>> >>] >>
    /\ Len(result.tracks) = 1
    /\ result.tracks[1].name = "Bass"

\* C20: after any sequence of calls of get_scale_notes, create_chord (with
\* any inversion), create_chord_progression, create_melody, create_bass_line
\* and create_drum_pattern the value lists of the chord qualities and the
\* composer's tempo, time signature and track list are what they were before,
\* and two calls with the same arguments have returned the same result,
\* whatever was called between them.
C20_BuilderCallsLeaveStateUnchanged ==
    /\ chord_qualities = ChordQuality
    /\ tempo = 120 /\ time_signature = <<4, 4>> /\ tracks = <<>>
    /\ \A a, b \in 1..Len(calls) :
          (calls[a].op = calls[b].op /\ calls[a].args = calls[b].args) =>
              calls[a].result = calls[b].result

C20_Witness ==
    /\ Len(calls) = 3
    /\ calls[1].op = "create_chord" /\ calls[1].args = <<60, "MAJOR", 2, TRUE>>
    /\ calls[2].op = "create_chord" /\ calls[2].args = <<60, "MAJOR", 1, FALSE>>
    /\ calls[3].op = "create_chord" /\ calls[3].args = calls[1].args
    /\ calls[3].result = <<67, 72, 76, 79>>

\* C21: create_chord_progression, create_melody and create_bass_line never
\* raise an error, whatever the degree (0, negative, beyond the expanded
\* scale), for every root in [0,127] and every scale.
C21_PitchedBuildersNeverRaise ==
    (builder \in {"chord_progression", "melody", "bass"}) =>
        /\ pc # "raised"
        /\ raised = NoError

\* C22: in create_bass_line every note emitted for a degree d has the pitch
\* 24 semitones below the d-th entry of the 2-octave expansion of the root,
\* so a note emitted for degree 1 has pitch root - 24.
C22_BassPitchBelowExpansion ==
    (builder = "bass" /\ pc \in {"loop", "done"}) =>
        LET expansion == get_scale_notes(root, scale_type, 2)
            pos == IndexablePositions(pattern, idx, Len(scale_notes))
        IN  \A j \in 1..Min(Len(notes), Len(pos)) :
                LET d == pattern[pos[j]][1]
                IN  /\ d <= Len(expansion)
                    /\ notes[j].pitch = expansion[d] - 24
                    /\ d = 1 => notes[j].pitch = root - 24

====
